---- MODULE Spec2Model ----
(***************************************************************************)
(* EasyTrip backend ("dbms project/easytrip-backend/server.js"): the       *)
(* signup/login handlers, the hotel/flight/train search and create         *)
(* handlers and the error-handling middleware, over the four collections   *)
(* of the document store.                                                  *)
(*                                                                         *)
(* Conventions of the model                                                *)
(*  - a JavaScript string is a sequence of one-character strings; the      *)
(*    empty sequence stands for a missing (undefined) or empty value, the  *)
(*    two being alike to every `if (x)` / `!x` test of the handlers;       *)
(*  - a number is kept in tenths (15 is 1.5), so fractional prices exist;  *)
(*  - an instant is a number of hours since an epoch, and the server's     *)
(*    zone is UTC (no clock change), so a local calendar day is 24 hours;  *)
(*  - a document's _id is its position in its collection;                  *)
(*  - the store is reachable: gateway outages are outside the model.       *)
(***************************************************************************)
EXTENDS Integers, Sequences, FiniteSets, TLC

\* ------------------------------------------------------------- bounds
NumProcs == 2
MaxUsers == 2
MaxRecords == 3

\* -------------------------------------------------- program constants
MinPasswordLength == 6

VARIABLES users, hotels, flights, trains, pc, sreq, resp, signedUp

vars == <<users, hotels, flights, trains, pc, sreq, resp, signedUp>>

Procs == 1..NumProcs

\* ------------------------------------------------------------ strings
LowerChar(c) ==
  CASE c = "A" -> "a"
    [] c = "B" -> "b"
    [] c = "D" -> "d"
    [] OTHER -> c

\* String.prototype.toLowerCase
ToLowerCase(s) == [i \in 1..Len(s) |-> LowerChar(s[i])]

\* `!x` of a string or a missing value
Falsy(s) == s = <<>>

Rep(c, n) == [i \in 1..n |-> c]

\* ---------------------------------------------------------- responses
\* The error a handler passes to the middleware; statusCode 0 and code 0
\* stand for an absent property, name "" for no error at all.
NoError == [name |-> "", code |-> 0, statusCode |-> 0, message |-> "", errors |-> {}]

\* What the caller receives (status and the JSON body's success, message,
\* user/data and errors) together with the request it answers (req) and the
\* error written to the operator log by console.error (logged).
Response(op, req, status, success, message, data, errors, logged) ==
  [op |-> op, req |-> req, status |-> status, success |-> success,
   message |-> message, data |-> data, errors |-> errors, logged |-> logged]

NoResponse == Response("none", <<>>, 0, FALSE, "", <<>>, {}, NoError)

\* A handler that has not answered yet and goes on to its next await.
Continue(op, req) == Response(op, req, 0, FALSE, "", <<>>, {}, NoError)

\* Mutant of ErrorMiddleware: the duplicate-key branch is missing, so a
\* rejected insert falls through to the generic answer.
ErrorMiddlewareNoDuplicateBranch(op, req, error) ==
  IF error.name = "ValidationError"
  THEN Response(op, req, 400, FALSE, "Validation Error", <<>>, error.errors, error)
  ELSE Response(op, req,
                IF error.statusCode # 0 THEN error.statusCode ELSE 500,
                FALSE,
                IF error.message # "" THEN error.message ELSE "Server Error",
                <<>>, {}, error)

\* The error-handling middleware, reached through asyncHandler's catch(next).
ErrorMiddleware(op, req, error) ==
  IF error.name = "ValidationError"
  THEN Response(op, req, 400, FALSE, "Validation Error", <<>>, error.errors, error)
  ELSE IF error.code = 11000
  THEN Response(op, req, 400, FALSE, "Duplicate field value entered", <<>>, {}, error)
  ELSE Response(op, req,
                IF error.statusCode # 0 THEN error.statusCode ELSE 500,
                FALSE,
                IF error.message # "" THEN error.message ELSE "Server Error",
                <<>>, {}, error)

\* ------------------------------------------------- the User model
\* models/users.js: a unique index on email, a pre-save hook that stores a
\* salted one-way hash in place of the password, and comparePassword.
Salts == {"s1", "s2"}

\* The hash is a term over the salt and the password: equal hashes mean equal
\* salt and password, and nothing but re-hashing compares a candidate.
BcryptHash(password, salt) == [salt |-> salt, digest |-> <<"bcrypt", salt, password>>]

ComparePassword(candidate, stored) == BcryptHash(candidate, stored.salt) = stored

DuplicateKeyError ==
  [name |-> "MongoServerError", code |-> 11000, statusCode |-> 0,
   message |-> "E11000 duplicate key error collection: easytrip.users", errors |-> {}]

\* user.save(): the insert is rejected when the unique index already holds
\* the email, and otherwise appends the document with the hashed password.
UserSave(us, doc, salt) ==
  IF \E i \in 1..Len(us) : us[i].email = doc.email
  THEN [ok |-> FALSE, users |-> us, id |-> 0, error |-> DuplicateKeyError]
  ELSE [ok |-> TRUE,
        users |-> Append(us, [id |-> Len(us) + 1, email |-> doc.email,
                              password |-> BcryptHash(doc.password, salt)]),
        id |-> Len(us) + 1, error |-> NoError]

\* User.findOne({ email }): the position of the document with that email,
\* 0 when there is none.
FindOne(us, email) ==
  IF \E i \in 1..Len(us) : us[i].email = email
  THEN CHOOSE i \in 1..Len(us) :
         us[i].email = email /\ \A j \in 1..(i - 1) : us[j].email # email
  ELSE 0

\* ----------------------------------------------------------- signup
\* Mutant of SignupCheckResponse: an existing account is answered with 409.
SignupCheckConflictStatus(us, req) ==
  IF Falsy(req.email) \/ Falsy(req.password)
  THEN Response("signup", req, 400, FALSE, "Email and password are required", <<>>, {}, NoError)
  ELSE IF Len(req.password) < MinPasswordLength
  THEN Response("signup", req, 400, FALSE, "Password must be at least 6 characters long", <<>>, {}, NoError)
  ELSE IF FindOne(us, ToLowerCase(req.email)) # 0
  THEN Response("signup", req, 409, FALSE, "User already exists with this email", <<>>, {}, NoError)
  ELSE Continue("signup", req)

\* Mutant of SignupCheckResponse: the length test is off by one and lets a
\* password one character short through.
SignupCheckShortLimit(us, req) ==
  IF Falsy(req.email) \/ Falsy(req.password)
  THEN Response("signup", req, 400, FALSE, "Email and password are required", <<>>, {}, NoError)
  ELSE IF Len(req.password) < MinPasswordLength - 1
  THEN Response("signup", req, 400, FALSE, "Password must be at least 6 characters long", <<>>, {}, NoError)
  ELSE IF FindOne(us, ToLowerCase(req.email)) # 0
  THEN Response("signup", req, 400, FALSE, "User already exists with this email", <<>>, {}, NoError)
  ELSE Continue("signup", req)

\* POST /signup up to the result of User.findOne: the two validations and
\* the existence pre-check.
SignupCheckResponse(us, req) ==
  IF Falsy(req.email) \/ Falsy(req.password)
  THEN Response("signup", req, 400, FALSE, "Email and password are required", <<>>, {}, NoError)
  ELSE IF Len(req.password) < MinPasswordLength
  THEN Response("signup", req, 400, FALSE, "Password must be at least 6 characters long", <<>>, {}, NoError)
  ELSE IF FindOne(us, ToLowerCase(req.email)) # 0
  THEN Response("signup", req, 400, FALSE, "User already exists with this email", <<>>, {}, NoError)
  ELSE Continue("signup", req)

\* Mutant of NewUser: the email is stored as it was sent.
NewUserRawEmail(req) == [email |-> req.email, password |-> req.password]

\* new User({ email: email.toLowerCase(), password })
NewUser(req) == [email |-> ToLowerCase(req.email), password |-> req.password]

\* POST /signup from `await user.save()` on: the created account's email and
\* id, or the middleware's answer to the error save() threw.
SignupSaveOutcome(us, req, salt) ==
  LET saved == UserSave(us, NewUser(req), salt) IN
  IF saved.ok
  THEN [users |-> saved.users,
        resp |-> Response("signup", req, 201, TRUE, "Account created successfully",
                          <<[email |-> NewUser(req).email, id |-> saved.id]>>, {}, NoError)]
  ELSE [users |-> us, resp |-> ErrorMiddleware("signup", req, saved.error)]

\* ------------------------------------------------------------ login
\* Mutant of LoginResponse: the account is looked up by the email as sent.
LoginRawLookup(us, req) ==
  IF Falsy(req.email) \/ Falsy(req.password)
  THEN Response("login", req, 400, FALSE, "Email and password are required", <<>>, {}, NoError)
  ELSE LET i == FindOne(us, req.email) IN
       IF i = 0
       THEN Response("login", req, 404, FALSE, "No account found with this email", <<>>, {}, NoError)
       ELSE IF ~ComparePassword(req.password, us[i].password)
       THEN Response("login", req, 401, FALSE, "Invalid password", <<>>, {}, NoError)
       ELSE Response("login", req, 200, TRUE, "Login successful",
                     <<[email |-> us[i].email, id |-> us[i].id]>>, {}, NoError)

\* Mutant of LoginResponse: signup's length validation is repeated at login,
\* so a wrong password is answered differently when it is too short.
LoginLengthHint(us, req) ==
  IF Falsy(req.email) \/ Falsy(req.password)
  THEN Response("login", req, 400, FALSE, "Email and password are required", <<>>, {}, NoError)
  ELSE IF Len(req.password) < MinPasswordLength
  THEN Response("login", req, 400, FALSE, "Password must be at least 6 characters long", <<>>, {}, NoError)
  ELSE LET i == FindOne(us, ToLowerCase(req.email)) IN
       IF i = 0
       THEN Response("login", req, 404, FALSE, "No account found with this email", <<>>, {}, NoError)
       ELSE IF ~ComparePassword(req.password, us[i].password)
       THEN Response("login", req, 401, FALSE, "Invalid password", <<>>, {}, NoError)
       ELSE Response("login", req, 200, TRUE, "Login successful",
                     <<[email |-> us[i].email, id |-> us[i].id]>>, {}, NoError)

\* POST /login
LoginResponse(us, req) ==
  IF Falsy(req.email) \/ Falsy(req.password)
  THEN Response("login", req, 400, FALSE, "Email and password are required", <<>>, {}, NoError)
  ELSE LET i == FindOne(us, ToLowerCase(req.email)) IN
       IF i = 0
       THEN Response("login", req, 404, FALSE, "No account found with this email", <<>>, {}, NoError)
       ELSE IF ~ComparePassword(req.password, us[i].password)
       THEN Response("login", req, 401, FALSE, "Invalid password", <<>>, {}, NoError)
       ELSE Response("login", req, 200, TRUE, "Login successful",
                     <<[email |-> us[i].email, id |-> us[i].id]>>, {}, NoError)

\* ------------------------------------------- library calls of search
Range(s) == {s[i] : i \in 1..Len(s)}

\* new RegExp(pattern, 'i') throws a SyntaxError on an unterminated group.
RegExpValid(pattern) == \A i \in 1..Len(pattern) : pattern[i] # "("

\* One pattern character against one subject character under the i flag:
\* "." matches any character, every other character matches itself.
RegExpCharMatches(p, c) == p = "." \/ LowerChar(p) = LowerChar(c)

\* An unanchored match of new RegExp(pattern, 'i') somewhere in s.
RegExpTest(pattern, s) ==
  \E k \in 0..(Len(s) - Len(pattern)) :
    \A i \in 1..Len(pattern) : RegExpCharMatches(pattern[i], s[k + i])

IsDigit(c) == c \in {"0", "1", "2", "3", "4", "5", "6", "7", "8", "9"}

DigitValue(c) ==
  CASE c = "0" -> 0 [] c = "1" -> 1 [] c = "2" -> 2 [] c = "3" -> 3 [] c = "4" -> 4
    [] c = "5" -> 5 [] c = "6" -> 6 [] c = "7" -> 7 [] c = "8" -> 8 [] c = "9" -> 9

\* The length of the longest prefix of s made of digits.
DigitPrefix(s) ==
  CHOOSE n \in 0..Len(s) :
    /\ \A i \in 1..n : IsDigit(s[i])
    /\ n = Len(s) \/ ~IsDigit(s[n + 1])

RECURSIVE DigitsValue(_, _)
DigitsValue(s, n) == IF n = 0 THEN 0 ELSE 10 * DigitsValue(s, n - 1) + DigitValue(s[n])

\* parseInt(s): the integer its leading digits spell, whatever follows them;
\* <<>> is NaN. The result is in tenths, like every number of the model.
ParseInt(s) ==
  IF DigitPrefix(s) = 0 THEN <<>> ELSE <<10 * DigitsValue(s, DigitPrefix(s))>>

\* s.split(sep): the pieces of s between the separators.
RECURSIVE Split(_, _)
Split(s, sep) ==
  IF \E i \in 1..Len(s) : s[i] = sep
  THEN LET i == CHOOSE i \in 1..Len(s) : s[i] = sep /\ \A j \in 1..(i - 1) : s[j] # sep
       IN <<SubSeq(s, 1, i - 1)>> \o Split(SubSeq(s, i + 1, Len(s)), sep)
  ELSE <<s>>

\* The date strings of a query: a calendar day ("2024-03-01"), a day with a
\* time of day ("2024-03-01T08:00"), a text that is no date, or none.
NoDate == [form |-> "", day |-> 0, hour |-> 0]

\* new Date(string): the instant, <<>> for an Invalid Date.
NewDate(d) ==
  CASE d.form = "date" -> <<24 * d.day>>
    [] d.form = "datetime" -> <<24 * d.day + d.hour>>
    [] OTHER -> <<>>

\* nextDay.setDate(nextDay.getDate() + 1): the same time of day, one day on.
NextDay(t) == t + 24

CastError(path) ==
  [name |-> "CastError", code |-> 0, statusCode |-> 0,
   message |-> "Cast failed for value at path " \o path, errors |-> {}]

RegExpSyntaxError ==
  [name |-> "SyntaxError", code |-> 0, statusCode |-> 0,
   message |-> "Invalid regular expression: Unterminated group", errors |-> {}]

\* Model.find(query).sort({ key: 1 }): the documents of docs that pass,
\* with keys[i] the sort key of docs[i], in ascending order of key;
\* documents of equal key stay in insertion order.
SortAscending(docs, keys) ==
  LET n == Len(docs)
      Rank(i) == 1 + Cardinality({j \in 1..n : keys[j] < keys[i] \/ (keys[j] = keys[i] /\ j < i)})
  IN [r \in 1..n |-> docs[CHOOSE i \in 1..n : Rank(i) = r]]

\* ------------------------------------------------------------ hotels
HotelMatches(h, req) ==
  /\ Falsy(req.location) \/ RegExpTest(req.location, h.location)
  /\ Falsy(req.maxPrice) \/ h.pricePerNight <= ParseInt(req.maxPrice)[1]
  /\ Falsy(req.amenities) \/ \E a \in Range(Split(req.amenities, ",")) : a \in h.amenities

\* GET /api/hotels
HotelsGetResponse(hs, req) ==
  IF ~Falsy(req.location) /\ ~RegExpValid(req.location)
  THEN ErrorMiddleware("GET /api/hotels", req, RegExpSyntaxError)
  ELSE IF ~Falsy(req.maxPrice) /\ ParseInt(req.maxPrice) = <<>>
  THEN ErrorMiddleware("GET /api/hotels", req, CastError("pricePerNight"))
  ELSE LET found == SelectSeq(hs, LAMBDA h : HotelMatches(h, req))
       IN Response("GET /api/hotels", req, 200, TRUE, "",
                   SortAscending(found, [i \in 1..Len(found) |-> found[i].pricePerNight]),
                   {}, NoError)

\* The messages of the required-field validators that fail on a payload.
HotelValidation(body) ==
  {m \in {"Path name is required.", "Path location is required.",
          "Path pricePerNight is required."} :
     \/ m = "Path name is required." /\ Falsy(body.name)
     \/ m = "Path location is required." /\ Falsy(body.location)
     \/ m = "Path pricePerNight is required." /\ Falsy(body.pricePerNight)}

ValidationError(model, messages) ==
  [name |-> "ValidationError", code |-> 0, statusCode |-> 0,
   message |-> model \o " validation failed", errors |-> messages]

\* new Hotel(req.body) as stored: availableRooms defaults to 0.
NewHotel(body, id) ==
  [id |-> id, name |-> body.name, location |-> body.location,
   pricePerNight |-> body.pricePerNight[1], amenities |-> body.amenities,
   availableRooms |-> IF Falsy(body.availableRooms) THEN 0 ELSE body.availableRooms[1]]

\* POST /api/hotels
HotelsPostOutcome(hs, body) ==
  IF HotelValidation(body) # {}
  THEN [docs |-> hs,
        resp |-> ErrorMiddleware("POST /api/hotels", body,
                                 ValidationError("Hotel", HotelValidation(body)))]
  ELSE [docs |-> Append(hs, NewHotel(body, Len(hs) + 1)),
        resp |-> Response("POST /api/hotels", body, 201, TRUE, "",
                          <<NewHotel(body, Len(hs) + 1)>>, {}, NoError)]

\* ------------------------------------------------ flights and trains
\* The from and to criteria of a flight or train query.
RouteMatches(d, req) ==
  /\ Falsy(req.from) \/ RegExpTest(req.from, d.from)
  /\ Falsy(req.to) \/ RegExpTest(req.to, d.to)

\* departureTime: { $gte: searchDate, $lt: nextDay }
DepartureMatches(d, req) ==
  \/ req.date = NoDate
  \/ /\ NewDate(req.date)[1] <= d.departureTime
     /\ d.departureTime < NextDay(NewDate(req.date)[1])

\* GET /api/flights
FlightsGetResponse(fs, req) ==
  IF (~Falsy(req.from) /\ ~RegExpValid(req.from)) \/ (~Falsy(req.to) /\ ~RegExpValid(req.to))
  THEN ErrorMiddleware("GET /api/flights", req, RegExpSyntaxError)
  ELSE IF req.date # NoDate /\ NewDate(req.date) = <<>>
  THEN ErrorMiddleware("GET /api/flights", req, CastError("departureTime"))
  ELSE LET found == SelectSeq(fs, LAMBDA d : RouteMatches(d, req) /\ DepartureMatches(d, req))
       IN Response("GET /api/flights", req, 200, TRUE, "",
                   SortAscending(found, [i \in 1..Len(found) |-> found[i].price]),
                   {}, NoError)

\* GET /api/trains
TrainsGetResponse(ts, req) ==
  IF (~Falsy(req.from) /\ ~RegExpValid(req.from)) \/ (~Falsy(req.to) /\ ~RegExpValid(req.to))
  THEN ErrorMiddleware("GET /api/trains", req, RegExpSyntaxError)
  ELSE IF req.date # NoDate /\ NewDate(req.date) = <<>>
  THEN ErrorMiddleware("GET /api/trains", req, CastError("departureTime"))
  ELSE LET found == SelectSeq(ts, LAMBDA d : RouteMatches(d, req) /\ DepartureMatches(d, req))
       IN Response("GET /api/trains", req, 200, TRUE, "",
                   SortAscending(found, [i \in 1..Len(found) |-> found[i].price]),
                   {}, NoError)

\* The required-field validators of the flight and train schemas; carrier is
\* the airline or the trainName.
TransportValidation(body, carrierPath) ==
  {m \in {"Path " \o carrierPath \o " is required.", "Path from is required.",
          "Path to is required.", "Path departureTime is required.",
          "Path arrivalTime is required.", "Path price is required."} :
     \/ m = "Path " \o carrierPath \o " is required." /\ Falsy(body.carrier)
     \/ m = "Path from is required." /\ Falsy(body.from)
     \/ m = "Path to is required." /\ Falsy(body.to)
     \/ m = "Path departureTime is required." /\ Falsy(body.departureTime)
     \/ m = "Path arrivalTime is required." /\ Falsy(body.arrivalTime)
     \/ m = "Path price is required." /\ Falsy(body.price)}

\* new Flight(req.body) as stored: availableSeats defaults to 0.
NewFlight(body, id) ==
  [id |-> id, airline |-> body.carrier, from |-> body.from, to |-> body.to,
   departureTime |-> body.departureTime[1], arrivalTime |-> body.arrivalTime[1],
   price |-> body.price[1],
   availableSeats |-> IF Falsy(body.availableSeats) THEN 0 ELSE body.availableSeats[1]]

\* POST /api/flights
FlightsPostOutcome(fs, body) ==
  IF TransportValidation(body, "airline") # {}
  THEN [docs |-> fs,
        resp |-> ErrorMiddleware("POST /api/flights", body,
                                 ValidationError("Flight", TransportValidation(body, "airline")))]
  ELSE [docs |-> Append(fs, NewFlight(body, Len(fs) + 1)),
        resp |-> Response("POST /api/flights", body, 201, TRUE, "",
                          <<NewFlight(body, Len(fs) + 1)>>, {}, NoError)]

\* new Train(req.body) as stored: availableSeats defaults to 0.
NewTrain(body, id) ==
  [id |-> id, trainName |-> body.carrier, from |-> body.from, to |-> body.to,
   departureTime |-> body.departureTime[1], arrivalTime |-> body.arrivalTime[1],
   price |-> body.price[1],
   availableSeats |-> IF Falsy(body.availableSeats) THEN 0 ELSE body.availableSeats[1]]

\* POST /api/trains
TrainsPostOutcome(ts, body) ==
  IF TransportValidation(body, "trainName") # {}
  THEN [docs |-> ts,
        resp |-> ErrorMiddleware("POST /api/trains", body,
                                 ValidationError("Train", TransportValidation(body, "trainName")))]
  ELSE [docs |-> Append(ts, NewTrain(body, Len(ts) + 1)),
        resp |-> Response("POST /api/trains", body, 201, TRUE, "",
                          <<NewTrain(body, Len(ts) + 1)>>, {}, NoError)]

\* ------------------------------------------------------ request inputs
HotelBody(name, location, price, amenities, rooms) ==
  [name |-> name, location |-> location, pricePerNight |-> price,
   amenities |-> amenities, availableRooms |-> rooms]

\* Prices 1.5, 1 and 2; the last payload lacks its name and its price.
HotelBodies ==
  {HotelBody(<<"H">>, <<"A", "b">>, <<15>>, {<<"w">>}, <<>>),
   HotelBody(<<"H">>, <<"b">>, <<10>>, {<<"p">>}, <<3>>),
   HotelBody(<<"H">>, <<"A", "b">>, <<20>>, {}, <<>>),
   HotelBody(<<>>, <<"b">>, <<>>, {}, <<>>)}

HotelQueries ==
  [location : {<<>>, <<"a">>, <<".">>, <<"(">>},
   maxPrice : {<<>>, <<"1">>, <<"1", ".", "5">>},
   amenities : {<<>>, <<"w">>, <<"w", ",", "p">>}]

TransportBody(carrier, from, to, dep, arr, price, seats) ==
  [carrier |-> carrier, from |-> from, to |-> to, departureTime |-> dep,
   arrivalTime |-> arr, price |-> price, availableSeats |-> seats]

\* Departures on day 1 at 08:00, on day 2 at 00:00 and on day 2 at 07:00; the
\* last payload lacks its carrier.
TransportBodies ==
  {TransportBody(<<"C">>, <<"A", "b">>, <<"b">>, <<32>>, <<34>>, <<20>>, <<>>),
   TransportBody(<<"C">>, <<"A", "b">>, <<"b">>, <<48>>, <<50>>, <<10>>, <<5>>),
   TransportBody(<<"C">>, <<"b">>, <<"A", "b">>, <<55>>, <<57>>, <<15>>, <<>>),
   TransportBody(<<>>, <<"b">>, <<"b">>, <<32>>, <<34>>, <<10>>, <<>>)}

DateInputs ==
  {NoDate,
   [form |-> "date", day |-> 1, hour |-> 0],
   [form |-> "datetime", day |-> 1, hour |-> 8],
   [form |-> "invalid", day |-> 0, hour |-> 0]}

TransportQueries ==
  [from : {<<>>, <<"a">>, <<"(">>}, to : {<<>>, <<"B">>}, date : DateInputs]

EmailInputs == {<<>>, <<"a">>, <<"A">>, <<"b">>}

SignupPasswords ==
  {<<>>} \cup {Rep("p", n) : n \in (MinPasswordLength - 1)..(MinPasswordLength + 1)}

LoginPasswords == SignupPasswords \cup {Rep("q", MinPasswordLength)}

SignupRequests == [email : EmailInputs, password : SignupPasswords]

LoginRequests == [email : EmailInputs, password : LoginPasswords]

NoRequest == [email |-> <<>>, password |-> <<>>]

\* ---------------------------------------------------------- the state
Init ==
  /\ users = <<>>
  /\ hotels = <<>>
  /\ flights = <<>>
  /\ trains = <<>>
  /\ pc = [p \in Procs |-> "idle"]
  /\ sreq = [p \in Procs |-> NoRequest]
  /\ resp = NoResponse
  /\ signedUp = {}

\* Signups that have passed the pre-check and await user.save().
Saving == {p \in Procs : pc[p] = "save"}

\* POST /signup, first part: validation and `await User.findOne`. Either the
\* request is answered here, or the handler goes on to user.save().
SignupCheck(p, req) ==
  /\ pc[p] = "idle"
  /\ LET r == SignupCheckResponse(users, req) IN
     IF r.status = 0
     THEN /\ Len(users) + Cardinality(Saving) < MaxUsers
          /\ pc' = [pc EXCEPT ![p] = "save"]
          /\ sreq' = [sreq EXCEPT ![p] = req]
          /\ UNCHANGED resp
     ELSE /\ resp' = r
          /\ UNCHANGED <<pc, sreq>>
  /\ UNCHANGED <<users, hotels, flights, trains, signedUp>>

\* POST /signup, second part: `await user.save()` and the answer.
SignupSave(p, salt) ==
  /\ pc[p] = "save"
  /\ LET out == SignupSaveOutcome(users, sreq[p], salt) IN
     /\ users' = out.users
     /\ resp' = out.resp
     /\ signedUp' = IF out.resp.status = 201
                    THEN signedUp \cup {[email |-> sreq[p].email,
                                         password |-> sreq[p].password,
                                         id |-> out.resp.data[1].id]}
                    ELSE signedUp
  /\ pc' = [pc EXCEPT ![p] = "idle"]
  /\ sreq' = [sreq EXCEPT ![p] = NoRequest]
  /\ UNCHANGED <<hotels, flights, trains>>

\* Mutant of Login: a successful login saves the account again, and the
\* pre-save hook hashes the stored hash's digest once more.
LoginResave(req) ==
  /\ resp' = LoginResponse(users, req)
  /\ users' = IF LoginResponse(users, req).status = 200
              THEN [users EXCEPT ![LoginResponse(users, req).data[1].id].password =
                      BcryptHash(@.digest, @.salt)]
              ELSE users
  /\ UNCHANGED <<hotels, flights, trains, pc, sreq, signedUp>>

\* POST /login. The account a login has fetched never changes afterwards, so
\* the lookup and the comparison are one step.
Login(req) ==
  /\ resp' = LoginResponse(users, req)
  /\ UNCHANGED <<users, hotels, flights, trains, pc, sreq, signedUp>>

\* The documents of the three catalog collections together.
Stored == Len(hotels) + Len(flights) + Len(trains)

\* GET /api/hotels
SearchHotels(req) ==
  /\ resp' = HotelsGetResponse(hotels, req)
  /\ UNCHANGED <<users, hotels, flights, trains, pc, sreq, signedUp>>

\* POST /api/hotels
CreateHotel(body) ==
  /\ LET out == HotelsPostOutcome(hotels, body) IN
     /\ out.docs # hotels => Stored < MaxRecords
     /\ hotels' = out.docs
     /\ resp' = out.resp
  /\ UNCHANGED <<users, flights, trains, pc, sreq, signedUp>>

\* GET /api/flights
SearchFlights(req) ==
  /\ resp' = FlightsGetResponse(flights, req)
  /\ UNCHANGED <<users, hotels, flights, trains, pc, sreq, signedUp>>

\* POST /api/flights
CreateFlight(body) ==
  /\ LET out == FlightsPostOutcome(flights, body) IN
     /\ out.docs # flights => Stored < MaxRecords
     /\ flights' = out.docs
     /\ resp' = out.resp
  /\ UNCHANGED <<users, hotels, trains, pc, sreq, signedUp>>

\* GET /api/trains
SearchTrains(req) ==
  /\ resp' = TrainsGetResponse(trains, req)
  /\ UNCHANGED <<users, hotels, flights, trains, pc, sreq, signedUp>>

\* POST /api/trains
CreateTrain(body) ==
  /\ LET out == TrainsPostOutcome(trains, body) IN
     /\ out.docs # trains => Stored < MaxRecords
     /\ trains' = out.docs
     /\ resp' = out.resp
  /\ UNCHANGED <<users, hotels, flights, pc, sreq, signedUp>>

CatalogNext ==
  \/ \E req \in HotelQueries : SearchHotels(req)
  \/ \E body \in HotelBodies : CreateHotel(body)
  \/ \E req \in TransportQueries : SearchFlights(req)
  \/ \E body \in TransportBodies : CreateFlight(body)
  \/ \E req \in TransportQueries : SearchTrains(req)
  \/ \E body \in TransportBodies : CreateTrain(body)

AuthNext ==
  \/ \E p \in Procs, req \in SignupRequests : SignupCheck(p, req)
  \/ \E p \in Procs, salt \in Salts : SignupSave(p, salt)
  \/ \E req \in LoginRequests : Login(req)

Next == AuthNext \/ CatalogNext

\* The whole service.
Spec == Init /\ [][Next]_vars

\* The authentication flow alone: no catalog request is made.
AuthSpec == Init /\ [][AuthNext]_vars

\* The resource catalog alone: no signup or login is made.
CatalogSpec == Init /\ [][CatalogNext]_vars

\* ======================================================== properties
\* A step that answers a request: every step but the one in which a signup
\* passes its pre-check and goes on to save. In such a step resp' is the
\* answer and the unprimed variables are the store the request found.
Responded == ~\E p \in Procs : pc[p] = "idle" /\ pc'[p] = "save"

\* An account with this email, letter case aside, is in the store.
EmailTaken(us, email) ==
  \E i \in 1..Len(us) : ToLowerCase(us[i].email) = ToLowerCase(email)

IsValidationError(r) ==
  /\ r.status = 400
  /\ r.success = FALSE
  /\ r.message \in {"Email and password are required",
                    "Password must be at least 6 characters long"}

IsDuplicateAccountError(r) ==
  /\ r.status = 400
  /\ r.success = FALSE
  /\ r.message \in {"User already exists with this email",
                    "Duplicate field value entered"}

\* What the caller sees of a response.
Body(r) ==
  [status |-> r.status, success |-> r.success, message |-> r.message,
   data |-> r.data, errors |-> r.errors]

IsPrefix(s, t) == Len(s) <= Len(t) /\ \A i \in 1..Len(s) : s[i] = t[i]

\* ---------------------------------------------------------------- C1
\* C1: in every reachable state, whatever the interleaving of the signups'
\* lookups and inserts, no two accounts of the store have the same email once
\* both are lowercased.
C1_OneAccountPerEmail ==
  \A i, j \in 1..Len(users) :
    ToLowerCase(users[i].email) = ToLowerCase(users[j].email) => i = j

\* Two signups of the same email, in different letter case, have both passed
\* the pre-check; one has inserted its account and the other is about to.
C1_Witness ==
  /\ Len(users) = 1
  /\ \E p \in Procs :
       /\ pc[p] = "save"
       /\ sreq[p].email # users[1].email
       /\ ToLowerCase(sreq[p].email) = users[1].email
  /\ \E s \in signedUp : s.email # ToLowerCase(s.email)

\* ---------------------------------------------------------------- C2
\* C2 as stated: every signup whose email is, letter case aside, the email of
\* an account in the store is answered with DuplicateAccountError (400,
\* success false), and the store holds as many accounts after it as before.
C2_DuplicateSignupRejected ==
  [][(Responded /\ resp'.op = "signup" /\ EmailTaken(users, resp'.req.email))
       => (IsDuplicateAccountError(resp') /\ Len(users') = Len(users))]_vars

\* C2 as amended: the same, for the signups whose password has at least 6
\* characters; a shorter or missing password is answered with the
\* ValidationError first (and the store is unchanged all the same).
C2_DuplicateSignupRejectedValidPassword ==
  [][(Responded /\ resp'.op = "signup" /\ EmailTaken(users, resp'.req.email))
       => /\ Len(users') = Len(users)
          /\ Len(resp'.req.password) >= MinPasswordLength
               => IsDuplicateAccountError(resp')
          /\ Len(resp'.req.password) < MinPasswordLength
               => IsValidationError(resp')]_vars

\* A signup of "A" has been refused because the account "a" exists.
C2_Witness ==
  /\ resp.op = "signup"
  /\ resp.message = "User already exists with this email"
  /\ resp.req.email = <<"A">>
  /\ \E i \in 1..Len(users) : users[i].email = <<"a">>

\* ---------------------------------------------------------------- C3
\* C3: every signup whose password has fewer than 6 characters is answered
\* with a ValidationError (400) and leaves the account store as it was.
C3_ShortPasswordRejected ==
  [][(Responded /\ resp'.op = "signup"
        /\ Len(resp'.req.password) < MinPasswordLength)
       => (IsValidationError(resp') /\ users' = users)]_vars

\* A signup with a 5-character password and a fresh email has been refused
\* while the store already held an account.
C3_Witness ==
  /\ resp.op = "signup"
  /\ Len(resp.req.password) = MinPasswordLength - 1
  /\ resp.message = "Password must be at least 6 characters long"
  /\ Len(users) = 1
  /\ ~EmailTaken(users, resp.req.email)

\* ---------------------------------------------------------------- C4
\* C4: once a signup with email E and password P has succeeded, a login with
\* P and an email equal to E letter case aside is answered 200 with the
\* lowercased email and the id of the account that signup created.
C4_SignupLoginRoundTrip ==
  resp.op = "login" =>
    \A s \in signedUp :
      (ToLowerCase(resp.req.email) = ToLowerCase(s.email)
         /\ resp.req.password = s.password)
        => /\ resp.status = 200
           /\ resp.success = TRUE
           /\ resp.data = <<[email |-> ToLowerCase(s.email), id |-> s.id]>>

\* The account was created as "A" and the login that succeeded sent "a".
C4_Witness ==
  /\ resp.op = "login"
  /\ resp.status = 200
  /\ resp.req.email = <<"a">>
  /\ \E s \in signedUp : s.email = <<"A">> /\ s.id = resp.data[1].id

C6_DateWindow ==
  (/\ resp.op \in {"GET /api/flights", "GET /api/trains"}
   /\ resp.status = 200
   /\ resp.req.date # NoDate)
    => LET docs == IF resp.op = "GET /api/flights" THEN flights ELSE trains
       IN Range(resp.data) =
            {d \in Range(docs) :
               /\ RouteMatches(d, resp.req)
               /\ 24 * resp.req.date.day <= d.departureTime
               /\ d.departureTime < 24 * (resp.req.date.day + 1)}

\* ---------------------------------------------------------------- C7
\* s occurs in t, letter case aside.
ContainsIgnoringCase(s, t) ==
  \E k \in 0..(Len(t) - Len(s)) :
    \A i \in 1..Len(s) : LowerChar(s[i]) = LowerChar(t[k + i])

\* The number a decimal numeral spells, in tenths.
NumberValue(s) ==
  IF DigitPrefix(s) + 2 = Len(s) /\ s[DigitPrefix(s) + 1] = "."
  THEN 10 * DigitsValue(s, DigitPrefix(s)) + DigitValue(s[Len(s)])
  ELSE 10 * DigitsValue(s, DigitPrefix(s))

HotelSatisfies(h, req) ==
  /\ Falsy(req.location) \/ ContainsIgnoringCase(req.location, h.location)
  /\ Falsy(req.maxPrice) \/ h.pricePerNight <= NumberValue(req.maxPrice)
  /\ Falsy(req.amenities) \/ \E a \in Range(Split(req.amenities, ",")) : a \in h.amenities

RouteSatisfies(d, req) ==
  /\ Falsy(req.from) \/ ContainsIgnoringCase(req.from, d.from)
  /\ Falsy(req.to) \/ ContainsIgnoringCase(req.to, d.to)

\* C7: a search returns exactly the stored records that satisfy every
\* supplied criterion (hotels: location as a substring, pricePerNight at most
\* maxPrice, one of the listed amenities; flights and trains: from and to as
\* substrings, the date as the handler applies it), and returns them in
\* ascending order of price.
C7_SearchExactAndSorted ==
  /\ (resp.op = "GET /api/hotels" /\ resp.status = 200)
       => /\ Range(resp.data) = {h \in Range(hotels) : HotelSatisfies(h, resp.req)}
          /\ Len(resp.data) = Cardinality(Range(resp.data))
          /\ \A i, j \in 1..Len(resp.data) :
               i < j => resp.data[i].pricePerNight <= resp.data[j].pricePerNight
  /\ (resp.op \in {"GET /api/flights", "GET /api/trains"} /\ resp.status = 200)
       => LET docs == IF resp.op = "GET /api/flights" THEN flights ELSE trains IN
          /\ Range(resp.data) =
               {d \in Range(docs) : RouteSatisfies(d, resp.req) /\ DepartureMatches(d, resp.req)}
          /\ Len(resp.data) = Cardinality(Range(resp.data))
          /\ \A i, j \in 1..Len(resp.data) : i < j => resp.data[i].price <= resp.data[j].price

\* ---------------------------------------------------------------- C8
\* C8: a failure that is no validation error and no duplicate-key error is
\* answered with status 500 and the generic message; the message of the
\* error itself goes to the log and is not in the response.
C8_GenericFailureResponse ==
  (/\ resp.logged.name # ""
   /\ resp.logged.name # "ValidationError"
   /\ resp.logged.code # 11000)
    => /\ resp.status = 500
       /\ resp.message = "Server Error"
       /\ resp.message # resp.logged.message

\* ---------------------------------------------------------------- C9
\* C9: a signup that passed the pre-check and whose insert the unique index
\* rejects, because a concurrent signup of the same email inserted first, is
\* answered 400 with success false, as the pre-check would have answered it
\* now: never 201, never 500, and no account is added.
C9_RaceLoserGetsDuplicate ==
  [][\A p \in Procs :
       (pc[p] = "save" /\ pc'[p] = "idle" /\ EmailTaken(users, sreq[p].email))
         => /\ resp'.req = sreq[p]
            /\ IsDuplicateAccountError(resp')
            /\ resp'.status = SignupCheckResponse(users, sreq[p]).status
            /\ resp'.success = SignupCheckResponse(users, sreq[p]).success
            /\ users' = users]_vars

\* The insert of a signup that had passed the pre-check has been rejected.
C9_Witness ==
  /\ resp.op = "signup"
  /\ resp.logged.code = 11000
  /\ resp.status = 400
  /\ EmailTaken(users, resp.req.email)

====
